---------------------------- MODULE Spec2Model ----------------------------
(***************************************************************************)
(* Stratify AI scoring engine (backend/app/services/scoring_engine.py).    *)
(*                                                                         *)
(* Numbers.  The engine computes with Python floats.  Here every real is a *)
(* fixed-point integer in millionths (ONE == 1.0): 0.15 is 150000, a price *)
(* change of 12.5 (percent) is 12500000.  Products and quotients are       *)
(* rounded to the nearest millionth, symmetrically in the sign, and are    *)
(* computed in pieces so that no intermediate value leaves 32 bits.        *)
(* math.exp is a fixed-point exponential with the same range error as the  *)
(* C library (OverflowError above 709.78).  A returned probability, which  *)
(* the code rounds to 3 decimals, is an integer number of thousandths.     *)
(* A float has finitely many significant bits, which makes its addition    *)
(* depend on the order of the terms: sum() is modelled with a float of 20  *)
(* significant bits, so that the rounding of a partial sum is visible at   *)
(* the model's resolution.                                                 *)
(*                                                                         *)
(* Time.  The wall clock counts ticks of half a day; a timedelta's .days   *)
(* is the floor of a tick difference over TicksPerDay.                     *)
(***************************************************************************)
EXTENDS Integers, Sequences, FiniteSets, TLC

\* ------------------------------------------------------------------------
\* Fixed-point arithmetic
\* ------------------------------------------------------------------------

\* 1.0 in millionths
ONE == 1000 * 1000

Abs(x) == IF x < 0 THEN -x ELSE x

Sgn(x) == IF x < 0 THEN -1 ELSE IF x > 0 THEN 1 ELSE 0

Min(a, b) == IF a <= b THEN a ELSE b

Max(a, b) == IF a >= b THEN a ELSE b

\* round(x / n) for an integer n > 0, half away from zero
DivBy(x, n) == Sgn(x) * ((Abs(x) + n \div 2) \div n)

\* a, b >= 0 in millionths: round(a * b) in millionths, 32-bit safe for a, b < 1000.0
MulU(a, b) ==
    LET a1 == a \div 1000
        a0 == a % 1000
        b1 == b \div 1000
        b0 == b % 1000
        mid == a1 * b0 + a0 * b1
    IN  a1 * b1 + mid \div 1000 + (((mid % 1000) * 1000 + a0 * b0 + 500000) \div ONE)

\* float multiplication
MulFP(a, b) == Sgn(a) * Sgn(b) * MulU(Abs(a), Abs(b))

\* a >= 0, 0 < b <= 2.0 (or plain integers with b <= 2000000): round(a / b) in millionths
DivU(a, b) ==
    LET q0 == a \div b
        r0 == a % b
        q1 == (r0 * 1000) \div b
        r1 == (r0 * 1000) % b
        q2 == (r1 * 1000 + b \div 2) \div b
    IN  q0 * ONE + q1 * 1000 + q2

\* float division
DivFP(a, b) == Sgn(a) * Sgn(b) * DivU(Abs(a), Abs(b))

\* exp(-n) for n = 0..14, in millionths; exp(-15) is below half a millionth
ExpNegInt == << 1000000, 367879, 135335, 49787, 18316, 6738, 2479, 912,
                335, 123, 45, 17, 6, 2, 1 >>

\* Horner evaluation of the exponential series of exp(-f), 0 <= f < 1:
\* r(k) = 1 - f * r(k+1) / k
RECURSIVE ExpSeries(_, _)
ExpSeries(f, k) ==
    IF k > 12 THEN ONE ELSE ONE - DivBy(MulFP(f, ExpSeries(f, k + 1)), k)

\* exp(-x) for x >= 0
ExpNeg(x) ==
    LET n == x \div ONE
    IN  IF n > 14 THEN 0 ELSE MulFP(ExpNegInt[n + 1], ExpSeries(x % ONE, 1))

\* math.exp(x) raises OverflowError when the result exceeds the largest double
ExpOverflowAt == 709782713

ExpOverflows(x) == x >= ExpOverflowAt


\* ------------------------------------------------------------------------
\* Python values.  A value read from a JSON-like dict is a record
\* [tag, v]: "absent" (no such key), "none" (None), "num" (a number v),
\* "str" (a non-empty, non-numeric string), "datetime" (the tick v), and for
\* a currency-keyed mapping "dict_num" ({"usd": v}), "dict_none"
\* ({"usd": None}), "dict_str" ({"usd": "n/a"}), "dict_empty" (no "usd" key).
\* ------------------------------------------------------------------------

Val(t, x) == [tag |-> t, v |-> x]

Num(x) == Val("num", x)

Absent == Val("absent", 0)

PyNone == Val("none", 0)

PyStr == Val("str", 0)

IsDict(val) == val.tag \in {"dict_num", "dict_none", "dict_str", "dict_empty"}

\* d.get(key, dflt) for a value that models the entry of key in d
Get(val, dflt) == IF val.tag = "absent" THEN dflt ELSE val

\* mutant: the mapping is read under a key it does not hold
GetUsd_WrongKey(val, dflt) == dflt

\* val.get("usd", dflt) for a mapping val
GetUsd(val, dflt) ==
    CASE val.tag = "dict_num"  -> Num(val.v)
      [] val.tag = "dict_none" -> PyNone
      [] val.tag = "dict_str"  -> PyStr
      [] OTHER                 -> dflt

\* val or dflt: None, 0 and 0.0 are falsy ({} never reaches an or)
PyOr(val, dflt) ==
    IF val.tag = "none" \/ (val.tag = "num" /\ val.v = 0) THEN dflt ELSE val

\* float(val) raises ValueError on a non-numeric string, TypeError on a mapping
FloatRaises(val) == val.tag # "num"

\* float(val) for a number
Float(val) == val.v

\* ------------------------------------------------------------------------
\* ScoringEngine.__init__: the engine's configuration
\* ------------------------------------------------------------------------

Horizons == {"short_term", "medium_term", "long_term"}

EngineInit ==
    [ amplification |-> 8 * ONE,
      momentum_weights |->
        [ short_term  |-> [h24 |-> 500000, d7 |-> 300000, d30 |-> 200000],
          medium_term |-> [h24 |-> 150000, d7 |-> 350000, d30 |-> 500000],
          long_term   |-> [h24 |->  50000, d7 |-> 150000, d30 |-> 800000] ],
      min_sensitivity |-> 150000 ]

\* ------------------------------------------------------------------------
\* Pure helpers of the engine; eng is the engine object (self)
\* ------------------------------------------------------------------------

TicksPerDay == 2

\* (now - event_date).days: timedelta.days is the floor of the difference
DaysAgo(now, event_date) == (now - event_date) \div TicksPerDay

\* -0.693 * days_ago / half_life, half_life = 14
RecencyExponent(days_ago) ==
    LET q == 693 * Abs(days_ago)
    IN  (-Sgn(days_ago)) * ((q \div 14) * 1000 + ((q % 14) * 1000 + 7) \div 14)

\* calculate_recency_score raises OverflowError (math.exp) for an event too
\* far in the future
RecencyRaises(days_ago) == ExpOverflows(RecencyExponent(days_ago))

\* calculate_recency_score: max(0.0, min(1.0, exp(x))); exp(x) >= 1 for x >= 0
calculate_recency_score(days_ago) ==
    LET x == RecencyExponent(days_ago)
    IN  IF x >= 0 THEN ONE ELSE Max(0, Min(ONE, ExpNeg(-x)))

\* mutant: direction = event_sentiment - 0.5 * 2
calculate_influence_score_Precedence(eng, asset_sensitivity, severity, sentiment, recency, attention) ==
    LET sens == Max(asset_sensitivity, eng.min_sensitivity)
        magnitude == MulFP(MulFP(MulFP(sens, severity), recency), attention)
    IN  MulFP(magnitude, sentiment - ONE)

\* mutant: direction = (0.5 - event_sentiment) * 2
calculate_influence_score_Inverted(eng, asset_sensitivity, severity, sentiment, recency, attention) ==
    LET sens == Max(asset_sensitivity, eng.min_sensitivity)
        magnitude == MulFP(MulFP(MulFP(sens, severity), recency), attention)
    IN  MulFP(magnitude, (500000 - sentiment) * 2)

\* mutant: the sensitivity is used as the profile stores it, without the floor
calculate_influence_score_NoFloor(eng, asset_sensitivity, severity, sentiment, recency, attention) ==
    LET magnitude == MulFP(MulFP(MulFP(asset_sensitivity, severity), recency), attention)
        direction == (sentiment - 500000) * 2
    IN  MulFP(magnitude, direction)

calculate_influence_score(eng, asset_sensitivity, severity, sentiment, recency, attention) ==
    LET sens == Max(asset_sensitivity, eng.min_sensitivity)
        magnitude == MulFP(MulFP(MulFP(sens, severity), recency), attention)
        direction == (sentiment - 500000) * 2
    IN  MulFP(magnitude, direction)

\* normalize(pct) inside calculate_momentum_signal
NormalizePct(pct) == Max(-ONE, Min(ONE, DivBy(pct, 10)))

\* mutant: a price change is taken as a fraction, pct / 100.0
calculate_momentum_signal_Percent(eng, price_changes, horizon) ==
    LET weights == eng.momentum_weights[horizon]
        Normalize(pct) == Max(-ONE, Min(ONE, DivBy(pct, 100)))
    IN  MulFP(weights.h24, Normalize(price_changes.h24))
        + MulFP(weights.d7, Normalize(price_changes.d7))
        + MulFP(weights.d30, Normalize(price_changes.d30))

calculate_momentum_signal(eng, price_changes, horizon) ==
    LET weights == eng.momentum_weights[horizon]
    IN  MulFP(weights.h24, NormalizePct(price_changes.h24))
        + MulFP(weights.d7, NormalizePct(price_changes.d7))
        + MulFP(weights.d30, NormalizePct(price_changes.d30))

\* A float keeps a fixed number of significant bits, so a sum is rounded once
\* it needs more: the model's float keeps 20 bits (a Python float 53), and a
\* value of 2^20 millionths or more is held to the nearest multiple of its
\* grain, a tie going to the even multiple.
Significand == 1024 * 1024

RECURSIVE Grain(_)
Grain(a) == IF a < Significand THEN 1 ELSE 2 * Grain(a \div 2)

FloatRound(x) ==
    LET a == Abs(x)
        g == Grain(a)
        q == a \div g
        r == a % g
    IN  Sgn(x) * g * (IF 2 * r > g \/ (2 * r = g /\ q % 2 = 1) THEN q + 1 ELSE q)

\* a + b of two floats
FloatAdd(a, b) == FloatRound(a + b)

\* sum(influences): the additions are made from left to right, starting at 0:
\* the first half of the list is added to acc, and to that total the second
RECURSIVE SumFrom(_, _)
SumFrom(acc, s) ==
    IF s = << >> THEN acc
    ELSE IF Len(s) = 1 THEN FloatAdd(acc, s[1])
    ELSE LET half == Len(s) \div 2
         IN  CHOOSE sum \in { SumFrom(total, SubSeq(s, half + 1, Len(s))) :
                              total \in { SumFrom(acc, SubSeq(s, 1, half)) } } : TRUE

SumSeq(s) == SumFrom(0, s)

\* combined = momentum * 2.5 + sum(influences) * amplification
CombinedSignal(eng, influences, momentum) ==
    MulFP(momentum, 2500000) + MulFP(SumSeq(influences), eng.amplification)

\* 1 / (1 + exp(-c)).  For c < 0 the fixed point cannot hold exp(-c), and the
\* quotient is taken after multiplying through by exp(c).
Sigmoid(c) ==
    IF c >= 0 THEN DivFP(ONE, ONE + ExpNeg(c))
    ELSE LET e == ExpNeg(-c) IN DivFP(e, ONE + e)

\* aggregate_influences raises OverflowError when math.exp(-combined) overflows
AggregateRaises(eng, influences, momentum) ==
    /\ ~(influences = << >> /\ momentum = 0)
    /\ ExpOverflows(-CombinedSignal(eng, influences, momentum))

\* mutant: no data is reported as probability 0
aggregate_influences_NoData(eng, influences, momentum) ==
    IF influences = << >> /\ momentum = 0 THEN 0
    ELSE Sigmoid(CombinedSignal(eng, influences, momentum))

aggregate_influences(eng, influences, momentum) ==
    IF influences = << >> /\ momentum = 0 THEN 500000
    ELSE Sigmoid(CombinedSignal(eng, influences, momentum))

\* mutant: the digits after the third decimal are cut off
Round3_Truncate(p) == 1000 * (p \div 1000)

\* round(p, 3), to the nearest thousandth, a tie to the even one
Round3(p) ==
    LET q == p \div 1000
        r == p % 1000
    IN  1000 * (IF r > 500 \/ (r = 500 /\ q % 2 = 1) THEN q + 1 ELSE q)

\* mutant: Medium needs medium quality and three events
determine_confidence_level_And(num_events, asset_data_quality) ==
    IF asset_data_quality = "high" /\ num_events >= 5 THEN "High"
    ELSE IF asset_data_quality = "medium" /\ num_events >= 3 THEN "Medium"
    ELSE "Low"

determine_confidence_level(num_events, asset_data_quality) ==
    IF asset_data_quality = "high" /\ num_events >= 5 THEN "High"
    ELSE IF asset_data_quality = "medium" \/ num_events >= 3 THEN "Medium"
    ELSE "Low"

\* ------------------------------------------------------------------------
\* create_asset_profile_from_coingecko and its helpers.  market_data is a
\* record of Python values; price changes are percentages in millionths,
\* market_cap and total_volume are whole dollars, market_cap_rank an integer.
\* ------------------------------------------------------------------------

\* the value calculate_volatility hands to float() for one price change
VolatilityArg(field) ==
    LET got == Get(field, Num(0))
        val == IF IsDict(got) THEN GetUsd(got, Num(0)) ELSE got
    IN  PyOr(val, Num(0))

calculate_volatility(market_data) ==
    LET price_change_24h == Abs(Float(VolatilityArg(market_data.price_change_percentage_24h)))
        price_change_7d == Abs(Float(VolatilityArg(market_data.price_change_percentage_7d)))
        avg_volatility == DivBy(price_change_24h + price_change_7d, 2)
    IN  Min(DivBy(avg_volatility, 50), ONE)

\* the values calculate_liquidity hands to float(): .get(key, {}) makes an
\* absent key an empty mapping
LiquidityCapArg(field) ==
    LET got == Get(field, Val("dict_empty", 0))
        val == IF IsDict(got) THEN GetUsd(got, Num(1)) ELSE got
    IN  PyOr(val, Num(1))

LiquidityVolumeArg(field) ==
    LET got == Get(field, Val("dict_empty", 0))
        val == IF IsDict(got) THEN GetUsd(got, Num(0)) ELSE got
    IN  PyOr(val, Num(0))

calculate_liquidity(market_data) ==
    LET market_cap == Float(LiquidityCapArg(market_data.market_cap))
        volume == Float(LiquidityVolumeArg(market_data.total_volume))
        volume_ratio == IF market_cap > 0 THEN DivFP(volume, market_cap) ELSE 0
    IN  Min(DivFP(volume_ratio, 100000), ONE)

\* mutant: int(market_cap_rank), without the or
MarketCapRank_NoOr(field) ==
    LET got == Get(field, Num(1000))
    IN  IF got.tag = "num" THEN got.v ELSE 1000

\* lines 222-228: int(market_cap_rank or 1000), 1000 for a mapping or when
\* int() raises
MarketCapRank(field) ==
    LET got == Get(field, Num(1000))
        val == IF IsDict(got) THEN Num(1000) ELSE PyOr(got, Num(1000))
    IN  IF val.tag = "num" THEN val.v ELSE 1000

\* the value _safe_float hands to float()
SafeFloatArg(field) ==
    LET got == Get(field, Num(0))
    IN  IF IsDict(got) THEN PyOr(GetUsd(got, Num(0)), Num(0)) ELSE PyOr(got, Num(0))

_safe_float(field) == Float(SafeFloatArg(field))

\* some float() of the construction raises (ValueError, TypeError)
ProfileRaises(market_data) ==
    \/ FloatRaises(VolatilityArg(market_data.price_change_percentage_24h))
    \/ FloatRaises(VolatilityArg(market_data.price_change_percentage_7d))
    \/ FloatRaises(LiquidityCapArg(market_data.market_cap))
    \/ FloatRaises(LiquidityVolumeArg(market_data.total_volume))
    \/ FloatRaises(SafeFloatArg(market_data.price_change_percentage_24h))
    \/ FloatRaises(SafeFloatArg(market_data.price_change_percentage_7d))
    \/ FloatRaises(SafeFloatArg(market_data.price_change_percentage_30d))

create_asset_profile_from_coingecko(eng, market_data) ==
    LET volatility == calculate_volatility(market_data)
        liquidity == calculate_liquidity(market_data)
        market_cap_rank == MarketCapRank(market_data.market_cap_rank)
    IN  [ volatility_level |-> Max(volatility, 50000),
          liquidity_sensitivity |-> Max(ONE - liquidity, eng.min_sensitivity),
          regulation_sensitivity |->
              Max(Min(DivBy(market_cap_rank * ONE, 100), ONE), eng.min_sensitivity),
          interest_rate_sensitivity |->
              Max(MulFP(volatility, 800000) + 150000, eng.min_sensitivity),
          geopolitical_sensitivity |->
              Max(MulFP(volatility, 600000) + 100000, eng.min_sensitivity),
          data_quality |-> "high",
          price_change_24h |-> _safe_float(market_data.price_change_percentage_24h),
          price_change_7d |-> _safe_float(market_data.price_change_percentage_7d),
          price_change_30d |-> _safe_float(market_data.price_change_percentage_30d) ]

\* ------------------------------------------------------------------------
\* State
\* ------------------------------------------------------------------------

VARIABLES
    engine,                   \* the module-level singleton scoring_engine
    clock,                    \* datetime.utcnow(), in ticks
    pc,                       \* "idle", "loop", "bucket", "done", "raised", "profiled", "rated"
    market_data,              \* argument of create_asset_profile_from_coingecko
    asset_profile,            \* the profile built, or the aggregation's argument
    macro_events,             \* argument of calculate_time_horizon_probabilities
    call_clock,               \* the clock when the aggregation was called
    idx,                      \* position of the for loop in macro_events (1-based)
    cur,                      \* locals of the iteration: event_date, recency, influence
    short_term_influences,
    medium_term_influences,
    long_term_influences,
    scored,                   \* per finished iteration: the locals it computed
    probabilities,            \* the returned triple
    raised,                   \* the exception that left the call, or "none"
    confidence,               \* determine_confidence_level's arguments and result
    invocations,              \* per concurrent caller: the locals of its aggregation call
    applied,                  \* a helper applied on its own: its name, arguments, result
    reports,                  \* the reports table, in insertion order
    request                   \* the route handler in progress: its locals and response

vars == << engine, clock, pc, market_data, asset_profile, macro_events, call_clock,
           idx, cur, short_term_influences, medium_term_influences,
           long_term_influences, scored, probabilities, raised, confidence,
           invocations, applied, reports, request >>

routeVars == << reports, request >>

callVars == << asset_profile, macro_events, call_clock, idx, cur,
               short_term_influences, medium_term_influences,
               long_term_influences, scored, probabilities >>

\* ------------------------------------------------------------------------
\* Inputs
\* ------------------------------------------------------------------------

MaxEvents == 2

MaxClock == 1

NoMarketData ==
    [ price_change_percentage_24h |-> Absent, price_change_percentage_7d |-> Absent,
      price_change_percentage_30d |-> Absent, market_cap |-> Absent,
      total_volume |-> Absent, market_cap_rank |-> Absent ]

\* market-data records behind the profiles the aggregation is called with
MarketSamples ==
    { NoMarketData,
      [ price_change_percentage_24h |-> Val("dict_num", 12500000),
        price_change_percentage_7d |-> Num(20000000),
        price_change_percentage_30d |-> Num(20000000),
        market_cap |-> Val("dict_num", 100), total_volume |-> Val("dict_num", 5),
        market_cap_rank |-> Num(5) ],
      [ price_change_percentage_24h |-> Num(-20000000),
        price_change_percentage_7d |-> Num(-5000000),
        price_change_percentage_30d |-> Num(-20000000),
        market_cap |-> Num(100), total_volume |-> Num(50),
        market_cap_rank |-> Absent ] }

\* a user-defined profile (models/token_profile.py): the five factors at their
\* default, no price changes, no data_quality
CustomProfile ==
    [ volatility_level |-> 500000, liquidity_sensitivity |-> 500000,
      regulation_sensitivity |-> 500000, interest_rate_sensitivity |-> 500000,
      geopolitical_sensitivity |-> 500000 ]

\* None passed as the asset profile
NoneProfile == [ none |-> TRUE ]

Profiles ==
    { create_asset_profile_from_coingecko(EngineInit, md) : md \in MarketSamples }
        \cup { CustomProfile, NoneProfile }

NoProfile == [ data_quality |-> "none" ]

TypeName(name) == [tag |-> "str", name |-> name]

Event(type, sev, sent, att, created) ==
    [ event_type |-> type, severity_score |-> sev, sentiment_score |-> sent,
      attention_score |-> att, created_at |-> created ]

\* created_at of an event that is 30 (180) whole days old at clock 0 and
\* 31 (181) whole days old one tick later
Aged30 == Val("datetime", 1 - 31 * TicksPerDay)

Aged180 == Val("datetime", 1 - 181 * TicksPerDay)

Today == Val("datetime", 0)

\* a timestamp 15000 days ahead
FarFuture == Val("datetime", 15000 * TicksPerDay)

EventSet ==
    { Event(TypeName("regulation"), Num(ONE), Num(400000), Num(ONE), Today),
      Event(TypeName("interest_rate"), Num(700000), Num(600000), Num(800000), Today),
      Event(TypeName("regulation"), Num(500000), Num(500000), Num(500000), Today),
      Event(TypeName("general"), Num(ONE), Num(400000), Num(ONE), Aged30),
      Event(TypeName("regulation"), Num(ONE), Num(400000), Num(ONE), Aged180),
      Event(TypeName("regulation"), Num(ONE), Num(500000), Num(ONE), FarFuture),
      Event([tag |-> "absent", name |-> ""], Absent, Absent, Absent, Absent) }

RECURSIVE SeqsUpTo(_, _)
SeqsUpTo(S, n) ==
    IF n = 0 THEN { << >> }
    ELSE LET shorter == SeqsUpTo(S, n - 1)
         IN  shorter \cup { Append(s, x) : s \in shorter, x \in S }

EventLists == SeqsUpTo(EventSet, MaxEvents)

NoCur == [event_date |-> 0, days_ago |-> 0, recency |-> 0, influence |-> 0]

NoProbabilities == [short_term |-> -1, medium_term |-> -1, long_term |-> -1]

NoConfidence == [num_events |-> 0, asset_data_quality |-> "none", level |-> "none"]

\* the requests that may be inside the aggregation at the same time
Callers == {"first", "second"}

\* the locals of a caller that is not inside the aggregation
NoFrame ==
    [ pc |-> "idle", asset_profile |-> NoProfile, macro_events |-> << >>, idx |-> 1,
      cur |-> NoCur, short_term_influences |-> << >>,
      medium_term_influences |-> << >>, long_term_influences |-> << >>,
      scored |-> << >>, probabilities |-> NoProbabilities, overlapped |-> FALSE ]

NoApplied == [fn |-> "none", args |-> << >>, result |-> 0]

NoResponse == [status |-> 0]

\* no route handler is running
NoRequest ==
    [ pc |-> "idle", handler |-> "none", user_id |-> "none",
      reports_at_start |-> << >>, asset_profile |-> NoProfile,
      macro_events |-> << >>, fetched |-> FALSE, probabilities |-> NoProbabilities,
      narratives |-> FALSE, confidence |-> "none", report_id |-> 0,
      raised |-> "none", response |-> NoResponse ]

InitEngine ==
    /\ engine = EngineInit
    /\ clock = 0
    /\ pc = "idle"
    /\ market_data = NoMarketData
    /\ asset_profile = NoProfile
    /\ macro_events = << >>
    /\ call_clock = 0
    /\ idx = 1
    /\ cur = NoCur
    /\ short_term_influences = << >>
    /\ medium_term_influences = << >>
    /\ long_term_influences = << >>
    /\ scored = << >>
    /\ probabilities = NoProbabilities
    /\ raised = "none"
    /\ confidence = NoConfidence
    /\ invocations = [ caller \in Callers |-> NoFrame ]
    /\ applied = NoApplied

Init == InitEngine /\ reports = << >> /\ request = NoRequest

\* ------------------------------------------------------------------------
\* calculate_time_horizon_probabilities
\* ------------------------------------------------------------------------

\* asset_profile.get(key, dflt)
ProfileGet(profile, key, dflt) == IF key \in DOMAIN profile THEN profile[key] ELSE dflt

\* f"{event_type}_sensitivity"; event.get("event_type", "general")
SensitivityKey(event_type) ==
    LET name == IF event_type.tag = "absent" THEN "general"
                ELSE IF event_type.tag = "none" THEN "None" ELSE event_type.name
    IN  CASE name = "liquidity"     -> "liquidity_sensitivity"
          [] name = "regulation"    -> "regulation_sensitivity"
          [] name = "interest_rate" -> "interest_rate_sensitivity"
          [] name = "geopolitical"  -> "geopolitical_sensitivity"
          [] OTHER                  -> "no_such_key"

\* lines 141-145
PriceChanges(profile) ==
    [ h24 |-> ProfileGet(profile, "price_change_24h", 0),
      d7  |-> ProfileGet(profile, "price_change_7d", 0),
      d30 |-> ProfileGet(profile, "price_change_30d", 0) ]

\* lines 152-155: the scores of an event, 0.5 when the key is absent
Severity(event) == Get(event.severity_score, Num(500000))

Sentiment(event) == Get(event.sentiment_score, Num(500000))

Attention(event) == Get(event.attention_score, Num(500000))

\* lines 156-159: created_at, or utcnow() when absent or no datetime
EventDate(event, now) ==
    IF event.created_at.tag = "datetime" THEN event.created_at.v ELSE now

\* the arithmetic of calculate_influence_score raises TypeError on a score
\* that is no number
ScoresRaise(event) ==
    \/ Severity(event).tag # "num"
    \/ Sentiment(event).tag # "num"
    \/ Attention(event).tag # "num"

\* lines 163-172: the influence of an event, given its recency
EventInfluence(eng, profile, event, recency) ==
    calculate_influence_score(eng,
        ProfileGet(profile, SensitivityKey(event.event_type), 400000),
        Severity(event).v, Sentiment(event).v, recency, Attention(event).v)

\* lines 176-180: the buckets an influence is appended to
\* mutants: the boundary day is left out; the medium window is a day longer
InShortTerm_Exclusive(days_ago) == days_ago < 30

InMediumTerm_Late(days_ago) == days_ago <= 181

\* mutant: the medium window begins where the short one ends
InMediumTerm_Window(days_ago) == days_ago > 30 /\ days_ago <= 180

InShortTerm(days_ago) == days_ago <= 30

InMediumTerm(days_ago) == days_ago <= 180

\* mutant: a missing profile is read as an empty one, (asset_profile or {})
ProfileGetRaises_Guarded(profile) == FALSE

\* line 142: None has no attribute get, asset_profile.get raises AttributeError
ProfileGetRaises(profile) == profile = NoneProfile

\* the call: lines 140-149
Call(profile, events) ==
    /\ pc = "idle"
    /\ IF ProfileGetRaises(profile)
       THEN pc' = "raised" /\ raised' = "AttributeError"
       ELSE pc' = "loop" /\ raised' = "none"
    /\ asset_profile' = profile
    /\ macro_events' = events
    /\ call_clock' = clock
    /\ idx' = 1
    /\ cur' = NoCur
    /\ short_term_influences' = << >>
    /\ medium_term_influences' = << >>
    /\ long_term_influences' = << >>
    /\ scored' = << >>
    /\ probabilities' = NoProbabilities
    /\ UNCHANGED << engine, clock, market_data, confidence,
                    invocations, applied,
                    routeVars >>

\* one iteration, lines 152-172: the event's date, recency and influence
ScoreEvent ==
    /\ pc = "loop"
    /\ idx <= Len(macro_events)
    /\ LET event == macro_events[idx]
           event_date == EventDate(event, clock)
           days_ago == DaysAgo(clock, event_date)
           recency == calculate_recency_score(days_ago)
       IN  IF RecencyRaises(days_ago)
           THEN /\ pc' = "raised"
                /\ raised' = "OverflowError"
                /\ cur' = cur
           ELSE IF ScoresRaise(event)
           THEN /\ pc' = "raised"
                /\ raised' = "TypeError"
                /\ cur' = cur
           ELSE /\ pc' = "bucket"
                /\ raised' = raised
                /\ cur' = [ event_date |-> event_date, days_ago |-> days_ago,
                            recency |-> recency,
                            influence |-> EventInfluence(engine, asset_profile,
                                                         event, recency) ]
    /\ UNCHANGED << engine, clock, market_data, asset_profile, macro_events,
                    call_clock, idx, short_term_influences, medium_term_influences,
                    long_term_influences, scored, probabilities, confidence,
                    invocations, applied,
                    routeVars >>

\* mutant: the bucket tests are chained with elif
BucketEvent_Elif ==
    /\ pc = "bucket"
    /\ LET days_ago == DaysAgo(clock, cur.event_date)
       IN  /\ short_term_influences' =
                 IF InShortTerm(days_ago)
                 THEN Append(short_term_influences, cur.influence)
                 ELSE short_term_influences
           /\ medium_term_influences' =
                 IF ~InShortTerm(days_ago) /\ InMediumTerm(days_ago)
                 THEN Append(medium_term_influences, cur.influence)
                 ELSE medium_term_influences
           /\ long_term_influences' = Append(long_term_influences, cur.influence)
           /\ scored' = Append(scored, [ recency_days |-> cur.days_ago,
                                         recency |-> cur.recency,
                                         influence |-> cur.influence,
                                         days_ago |-> days_ago ])
    /\ idx' = idx + 1
    /\ pc' = "loop"
    /\ UNCHANGED << engine, clock, market_data, asset_profile, macro_events,
                    call_clock, cur, probabilities, raised, confidence,
                    invocations, applied,
                    routeVars >>

\* the rest of the iteration, lines 174-180: the event's age is read again
BucketEvent ==
    /\ pc = "bucket"
    /\ LET days_ago == DaysAgo(clock, cur.event_date)
       IN  /\ short_term_influences' =
                 IF InShortTerm(days_ago)
                 THEN Append(short_term_influences, cur.influence)
                 ELSE short_term_influences
           /\ medium_term_influences' =
                 IF InMediumTerm(days_ago)
                 THEN Append(medium_term_influences, cur.influence)
                 ELSE medium_term_influences
           /\ long_term_influences' = Append(long_term_influences, cur.influence)
           /\ scored' = Append(scored, [ recency_days |-> cur.days_ago,
                                         recency |-> cur.recency,
                                         influence |-> cur.influence,
                                         days_ago |-> days_ago ])
    /\ idx' = idx + 1
    /\ pc' = "loop"
    /\ UNCHANGED << engine, clock, market_data, asset_profile, macro_events,
                    call_clock, cur, probabilities, raised, confidence,
                    invocations, applied,
                    routeVars >>

\* lines 183-185
Momentum(eng, profile, horizon) ==
    calculate_momentum_signal(eng, PriceChanges(profile), horizon)

\* after the loop, lines 182-196
Finish ==
    /\ pc = "loop"
    /\ idx > Len(macro_events)
    /\ LET short_momentum == Momentum(engine, asset_profile, "short_term")
           medium_momentum == Momentum(engine, asset_profile, "medium_term")
           long_momentum == Momentum(engine, asset_profile, "long_term")
       IN  IF \/ AggregateRaises(engine, short_term_influences, short_momentum)
              \/ AggregateRaises(engine, medium_term_influences, medium_momentum)
              \/ AggregateRaises(engine, long_term_influences, long_momentum)
           THEN /\ pc' = "raised"
                /\ raised' = "OverflowError"
                /\ probabilities' = probabilities
           ELSE /\ pc' = "done"
                /\ raised' = raised
                /\ probabilities' =
                     [ short_term |-> Round3(aggregate_influences(engine,
                                          short_term_influences, short_momentum)),
                       medium_term |-> Round3(aggregate_influences(engine,
                                          medium_term_influences, medium_momentum)),
                       long_term |-> Round3(aggregate_influences(engine,
                                          long_term_influences, long_momentum)) ]
    /\ UNCHANGED << engine, clock, market_data, asset_profile, macro_events,
                    call_clock, idx, cur, short_term_influences,
                    medium_term_influences, long_term_influences, scored, confidence,
                    invocations, applied,
                    routeVars >>

\* the wall clock advances
Tick ==
    /\ clock < MaxClock
    /\ clock' = clock + 1
    /\ UNCHANGED << engine, pc, market_data, asset_profile, macro_events, call_clock,
                    idx, cur, short_term_influences, medium_term_influences,
                    long_term_influences, scored, probabilities, raised, confidence,
                    invocations, applied,
                    routeVars >>

\* the call is over: the caller has the triple or the exception, and the
\* call's locals are gone
Return ==
    /\ pc \in {"done", "raised"}
    /\ pc' = "idle"
    /\ asset_profile' = NoProfile
    /\ macro_events' = << >>
    /\ call_clock' = 0
    /\ idx' = 1
    /\ cur' = NoCur
    /\ short_term_influences' = << >>
    /\ medium_term_influences' = << >>
    /\ long_term_influences' = << >>
    /\ scored' = << >>
    /\ probabilities' = NoProbabilities
    /\ raised' = "none"
    /\ UNCHANGED << engine, clock, market_data, confidence,
                    invocations, applied,
                    routeVars >>

Next ==
    \/ \E profile \in Profiles, events \in EventLists : Call(profile, events)
    \/ ScoreEvent
    \/ BucketEvent
    \/ Finish
    \/ Return
    \/ Tick

Spec == Init /\ [][Next]_vars

\* ------------------------------------------------------------------------
\* The aggregation as a function of its arguments and of one instant "now"
\* (used to state the claims)
\* ------------------------------------------------------------------------

\* whole-day age of an event at now
AgeAt(event, now) == DaysAgo(now, EventDate(event, now))

\* influence of an event scored at now
InfluenceAt(profile, event, now) ==
    EventInfluence(EngineInit, profile, event, calculate_recency_score(AgeAt(event, now)))

\* the influences, in list order, of the events that are at most limit days old
RECURSIVE InfluencesWithin(_, _, _, _)
InfluencesWithin(profile, events, now, limit) ==
    IF events = << >> THEN << >>
    ELSE LET rest == InfluencesWithin(profile, Tail(events), now, limit)
         IN  IF AgeAt(Head(events), now) <= limit
             THEN << InfluenceAt(profile, Head(events), now) >> \o rest
             ELSE rest

AllInfluences(profile, events, now) ==
    [ k \in 1..Len(events) |-> InfluenceAt(profile, events[k], now) ]

HorizonProbability(influences, profile, horizon) ==
    Round3(aggregate_influences(EngineInit, influences, Momentum(EngineInit, profile, horizon)))

ProbabilitiesAt(profile, events, now) ==
    [ short_term |-> HorizonProbability(InfluencesWithin(profile, events, now, 30),
                                        profile, "short_term"),
      medium_term |-> HorizonProbability(InfluencesWithin(profile, events, now, 180),
                                         profile, "medium_term"),
      long_term |-> HorizonProbability(AllInfluences(profile, events, now),
                                       profile, "long_term") ]

\* ------------------------------------------------------------------------
\* create_asset_profile_from_coingecko, called on any market-data record
\* ------------------------------------------------------------------------

PriceForms24h ==
    { Absent, PyNone, Num(0), Num(12500000), Val("dict_num", 12500000),
      Val("dict_none", 0), Val("dict_empty", 0), Num(-600000000) }

PriceForms7d == { Absent, Num(20000000), Val("dict_num", 20000000), PyStr }

PriceForms30d == { Num(-20000000), Val("dict_num", -20000000), Val("dict_str", 0) }

MarketCapForms == { Absent, Num(0), Num(100), Val("dict_num", 100), Num(-5) }

VolumeForms == { Absent, Num(5), Val("dict_num", 5), Num(50), Num(-50) }

RankForms == { Absent, PyNone, Num(0), Num(42), Num(250), PyStr, Val("dict_num", 3) }

MarketRecords ==
    [ price_change_percentage_24h : PriceForms24h,
      price_change_percentage_7d : PriceForms7d,
      price_change_percentage_30d : PriceForms30d,
      market_cap : MarketCapForms,
      total_volume : VolumeForms,
      market_cap_rank : RankForms ]

BuildProfile(md) ==
    /\ pc = "idle"
    /\ market_data' = md
    /\ IF ProfileRaises(md)
       THEN /\ pc' = "raised"
            /\ raised' = "ValueError"
            /\ asset_profile' = asset_profile
       ELSE /\ pc' = "profiled"
            /\ raised' = raised
            /\ asset_profile' = create_asset_profile_from_coingecko(engine, md)
    /\ UNCHANGED << engine, clock, macro_events, call_clock, idx, cur,
                    short_term_influences, medium_term_influences,
                    long_term_influences, scored, probabilities, confidence,
                    invocations, applied,
                    routeVars >>

\* the caller has the profile
ReturnProfile ==
    /\ pc \in {"profiled", "raised"}
    /\ pc' = "idle"
    /\ market_data' = NoMarketData
    /\ asset_profile' = NoProfile
    /\ raised' = "none"
    /\ UNCHANGED << engine, clock, macro_events, call_clock, idx, cur,
                    short_term_influences, medium_term_influences,
                    long_term_influences, scored, probabilities, confidence,
                    invocations, applied,
                    routeVars >>

NextProfile ==
    \/ \E md \in MarketRecords : BuildProfile(md)
    \/ ReturnProfile

SpecProfile == Init /\ [][NextProfile]_vars

\* ------------------------------------------------------------------------
\* determine_confidence_level, called on any event count and quality tag
\* ------------------------------------------------------------------------

MaxNumEvents == 24

DataQualities == {"high", "medium", "low", "unknown"}

DetermineConfidence(num_events, asset_data_quality) ==
    /\ pc = "idle"
    /\ pc' = "rated"
    /\ confidence' = [ num_events |-> num_events,
                       asset_data_quality |-> asset_data_quality,
                       level |-> determine_confidence_level(num_events,
                                                            asset_data_quality) ]
    /\ UNCHANGED << engine, clock, market_data, raised, callVars,
                    invocations, applied,
                    routeVars >>

ReturnConfidence ==
    /\ pc = "rated"
    /\ pc' = "idle"
    /\ confidence' = NoConfidence
    /\ UNCHANGED << engine, clock, market_data, raised, callVars,
                    invocations, applied,
                    routeVars >>

NextConfidence ==
    \/ \E n \in 0..MaxNumEvents, q \in DataQualities : DetermineConfidence(n, q)
    \/ ReturnConfidence

SpecConfidence == Init /\ [][NextConfidence]_vars

\* ------------------------------------------------------------------------
\* Concurrent callers of the aggregation on the one scoring_engine: each
\* request runs calculate_time_horizon_probabilities with locals of its own
\* (invocations[caller]) and they share the engine object and the clock
\* ------------------------------------------------------------------------

ConcurrentProfiles ==
    { CustomProfile,
      create_asset_profile_from_coingecko(EngineInit,
          [ NoMarketData EXCEPT !.price_change_percentage_24h = Num(-20000000),
                                !.market_cap_rank = Num(42) ]) }

ConcurrentLists ==
    { << Event(TypeName("regulation"), Num(ONE), Num(400000), Num(ONE), Today) >>,
      << Event(TypeName("general"), Num(ONE), Num(900000), Num(ONE), Aged30),
         Event(TypeName("regulation"), Num(ONE), Num(400000), Num(ONE), Today) >> }

\* mutant: the three lists are attributes of the engine, one set for all
\* callers
Buckets_OnEngine(invs, caller) ==
    LET Joined(key) == invs["first"][key] \o invs["second"][key]
    IN  [ short_term_influences |-> Joined("short_term_influences"),
          medium_term_influences |-> Joined("medium_term_influences"),
          long_term_influences |-> Joined("long_term_influences") ]

\* lines 147-149: the three lists are locals of the call
Buckets(invs, caller) ==
    [ short_term_influences |-> invs[caller].short_term_influences,
      medium_term_influences |-> invs[caller].medium_term_influences,
      long_term_influences |-> invs[caller].long_term_influences ]

\* another caller is inside the aggregation
Overlaps(caller) ==
    \E other \in Callers \ {caller} : invocations[other].pc \in {"loop", "bucket"}

Others ==
    << pc, market_data, asset_profile, macro_events, call_clock, idx, cur,
       short_term_influences, medium_term_influences, long_term_influences,
       scored, probabilities, raised, confidence, applied, routeVars >>

\* lines 140-149
CallBy(caller, profile, events) ==
    /\ invocations[caller].pc = "idle"
    /\ invocations' = [ invocations EXCEPT ![caller] =
           [ NoFrame EXCEPT !.pc = "loop", !.asset_profile = profile,
                            !.macro_events = events,
                            !.overlapped = Overlaps(caller) ] ]
    /\ UNCHANGED << engine, clock, Others >>

\* lines 152-172
ScoreEventBy(caller) ==
    LET frame == invocations[caller]
    IN  /\ frame.pc = "loop"
        /\ frame.idx <= Len(frame.macro_events)
        /\ LET event == frame.macro_events[frame.idx]
               event_date == EventDate(event, clock)
               days_ago == DaysAgo(clock, event_date)
               recency == calculate_recency_score(days_ago)
           IN  invocations' = [ invocations EXCEPT ![caller] =
                   IF RecencyRaises(days_ago) \/ ScoresRaise(event)
                   THEN [ frame EXCEPT !.pc = "raised" ]
                   ELSE [ frame EXCEPT
                            !.pc = "bucket",
                            !.overlapped = @ \/ Overlaps(caller),
                            !.cur = [ event_date |-> event_date, days_ago |-> days_ago,
                                      recency |-> recency,
                                      influence |-> EventInfluence(engine,
                                          frame.asset_profile, event, recency) ] ] ]
        /\ UNCHANGED << engine, clock, Others >>

\* lines 174-180
BucketEventBy(caller) ==
    LET frame == invocations[caller]
        lists == Buckets(invocations, caller)
        days_ago == DaysAgo(clock, frame.cur.event_date)
    IN  /\ frame.pc = "bucket"
        /\ invocations' = [ invocations EXCEPT ![caller] =
               [ frame EXCEPT
                   !.pc = "loop",
                   !.idx = @ + 1,
                   !.overlapped = @ \/ Overlaps(caller),
                   !.short_term_influences =
                       IF InShortTerm(days_ago)
                       THEN Append(lists.short_term_influences, frame.cur.influence)
                       ELSE lists.short_term_influences,
                   !.medium_term_influences =
                       IF InMediumTerm(days_ago)
                       THEN Append(lists.medium_term_influences, frame.cur.influence)
                       ELSE lists.medium_term_influences,
                   !.long_term_influences =
                       Append(lists.long_term_influences, frame.cur.influence),
                   !.scored = Append(@, [ recency_days |-> frame.cur.days_ago,
                                          recency |-> frame.cur.recency,
                                          influence |-> frame.cur.influence,
                                          days_ago |-> days_ago ]) ] ]
        /\ UNCHANGED << engine, clock, Others >>

\* lines 182-196
FinishBy(caller) ==
    LET frame == invocations[caller]
        lists == Buckets(invocations, caller)
        Raises(influences, horizon) ==
            AggregateRaises(engine, influences,
                            Momentum(engine, frame.asset_profile, horizon))
        Probability(influences, horizon) ==
            Round3(aggregate_influences(engine, influences,
                       Momentum(engine, frame.asset_profile, horizon)))
    IN  /\ frame.pc = "loop"
        /\ frame.idx > Len(frame.macro_events)
        /\ invocations' = [ invocations EXCEPT ![caller] =
               IF \/ Raises(lists.short_term_influences, "short_term")
                  \/ Raises(lists.medium_term_influences, "medium_term")
                  \/ Raises(lists.long_term_influences, "long_term")
               THEN [ frame EXCEPT !.pc = "raised" ]
               ELSE [ frame EXCEPT
                        !.pc = "done",
                        !.probabilities =
                            [ short_term |->
                                  Probability(lists.short_term_influences, "short_term"),
                              medium_term |->
                                  Probability(lists.medium_term_influences, "medium_term"),
                              long_term |->
                                  Probability(lists.long_term_influences, "long_term") ] ] ]
        /\ UNCHANGED << engine, clock, Others >>

\* the caller has its triple, the locals of its call are gone
ReturnTo(caller) ==
    /\ invocations[caller].pc \in {"done", "raised"}
    /\ invocations' = [ invocations EXCEPT ![caller] = NoFrame ]
    /\ UNCHANGED << engine, clock, Others >>

NextConcurrent ==
    \/ \E caller \in Callers, profile \in ConcurrentProfiles, events \in ConcurrentLists :
           CallBy(caller, profile, events)
    \/ \E caller \in Callers : ScoreEventBy(caller)
    \/ \E caller \in Callers : BucketEventBy(caller)
    \/ \E caller \in Callers : FinishBy(caller)
    \/ \E caller \in Callers : ReturnTo(caller)
    \/ Tick

SpecConcurrent == Init /\ [][NextConcurrent]_vars

\* ------------------------------------------------------------------------
\* The aggregation called on lists of three events in every order
\* ------------------------------------------------------------------------

\* a user-defined profile (schemas/asset_schema.py: any float) that stores 0
\* as its regulation sensitivity
ZeroProfile == [ CustomProfile EXCEPT !.regulation_sensitivity = 0 ]

OrderProfiles ==
    { create_asset_profile_from_coingecko(EngineInit, NoMarketData), CustomProfile,
      ZeroProfile }

\* the last two events: one without event type whose created_at is a string,
\* one whose severity_score is null
OrderEvents ==
    { Event(TypeName("regulation"), Num(600000), Num(ONE), Num(ONE), Today),
      Event(TypeName("regulation"), Num(448863), Num(ONE), Num(ONE), Today),
      Event(TypeName("regulation"), Num(ONE), Num(0), Num(ONE), Today),
      Event(TypeName("general"), Num(ONE), Num(400000), Num(ONE), Aged30),
      Event([tag |-> "absent", name |-> ""], Num(ONE), Num(400000), Num(ONE), PyStr),
      Event(TypeName("regulation"), PyNone, Num(400000), Num(ONE), Today) }

\* the lists of three different events
OrderLists ==
    { events \in [1..3 -> OrderEvents] :
          \A j, k \in 1..3 : j # k => events[j] # events[k] }

NextOrder ==
    \/ \E profile \in OrderProfiles, events \in OrderLists : Call(profile, events)
    \/ ScoreEvent
    \/ BucketEvent
    \/ Finish
    \/ Return

SpecOrder == Init /\ [][NextOrder]_vars

\* ------------------------------------------------------------------------
\* calculate_influence_score and calculate_momentum_signal applied on their
\* own, to any arguments
\* ------------------------------------------------------------------------

\* the records whose market cap, volume and rank take every form
SensitivityRecords ==
    { [ NoMarketData EXCEPT !.market_cap = cap, !.total_volume = volume,
                            !.market_cap_rank = rank ] :
          cap \in MarketCapForms, volume \in VolumeForms, rank \in RankForms }

\* what asset_profile.get(sensitivity_key, 0.4) can give: a sensitivity of a
\* profile the engine builds, of a user-defined profile, or the default 0.4
Sensitivities ==
    { create_asset_profile_from_coingecko(EngineInit, md)[key] :
          md \in SensitivityRecords,
          key \in { "liquidity_sensitivity", "regulation_sensitivity",
                    "interest_rate_sensitivity", "geopolitical_sensitivity" } }
        \cup { CustomProfile.regulation_sensitivity, 400000 }

Scores == { 0, 400000, 500000, ONE }

\* whole-day ages: an event of tomorrow, of today, a half-life old, a month old
Ages == { -1, 0, 14, 30 }

\* lines 161-172 for one event
ApplyInfluence(asset_sensitivity, severity, sentiment, days_ago, attention) ==
    /\ pc = "idle"
    /\ pc' = "applied"
    /\ applied' =
          [ fn |-> "calculate_influence_score",
            args |-> << asset_sensitivity, severity, sentiment, days_ago, attention >>,
            result |-> calculate_influence_score(engine, asset_sensitivity, severity,
                           sentiment, calculate_recency_score(days_ago), attention) ]
    /\ UNCHANGED << engine, clock, market_data, raised, callVars, confidence,
                    invocations,
                    routeVars >>

\* percentages, in millionths of a percent
PriceChangeValues ==
    { -25000000, -10000000, -5000000, 0, 3300000, 10000000, 60000000 }

\* lines 183-185 for one horizon
ApplyMomentum(c24, c7, c30, horizon) ==
    /\ pc = "idle"
    /\ pc' = "applied"
    /\ applied' =
          [ fn |-> "calculate_momentum_signal",
            args |-> << c24, c7, c30, horizon >>,
            result |-> calculate_momentum_signal(engine,
                           [h24 |-> c24, d7 |-> c7, d30 |-> c30], horizon) ]
    /\ UNCHANGED << engine, clock, market_data, raised, callVars, confidence,
                    invocations,
                    routeVars >>

\* whole-day ages calculate_recency_score is applied to: an event 15000 days
\* ahead, of tomorrow, of today, and events up to 84 days old
RecencyAges == { -15000, -1, 0, 1, 13, 14, 15, 28, 30, 42, 56, 70, 84 }

\* calculate_recency_score for one age, lines 42-45
ApplyRecency(days_ago) ==
    /\ pc = "idle"
    /\ IF RecencyRaises(days_ago)
       THEN /\ pc' = "raised"
            /\ raised' = "OverflowError"
            /\ applied' = [ fn |-> "calculate_recency_score",
                            args |-> << days_ago >>, result |-> 0 ]
       ELSE /\ pc' = "applied"
            /\ raised' = raised
            /\ applied' = [ fn |-> "calculate_recency_score",
                            args |-> << days_ago >>,
                            result |-> calculate_recency_score(days_ago) ]
    /\ UNCHANGED << engine, clock, market_data, callVars, confidence,
                    invocations,
                    routeVars >>

\* a list of n influences x
Repeated(x, n) == [ k \in 1..n |-> x ]

\* lists of influences aggregate_influences is applied to: none, one weak or
\* strong influence, influences that cancel, and many strong ones of one sign
InfluenceLists ==
    { << >>, << 1 >>, << -1 >>, << 40000 >>, << -40000 >>, << 300000, -300000 >>,
      << 100000, 150000 >>, << -ONE >>, Repeated(ONE, 5), Repeated(ONE, 6),
      Repeated(-ONE, 89) }

MomentumValues == { -ONE, -200000, 0, 200000, ONE }

\* aggregate_influences for one bucket, lines 114-127
ApplyAggregate(influences, momentum) ==
    /\ pc = "idle"
    /\ IF AggregateRaises(engine, influences, momentum)
       THEN /\ pc' = "raised"
            /\ raised' = "OverflowError"
            /\ applied' = [ fn |-> "aggregate_influences",
                            args |-> << influences, momentum >>, result |-> 0 ]
       ELSE /\ pc' = "applied"
            /\ raised' = raised
            /\ applied' = [ fn |-> "aggregate_influences",
                            args |-> << influences, momentum >>,
                            result |-> aggregate_influences(engine, influences,
                                                            momentum) ]
    /\ UNCHANGED << engine, clock, market_data, callVars, confidence,
                    invocations,
                    routeVars >>

\* the caller has the result or the exception
ReturnApplied ==
    /\ pc \in {"applied", "raised"}
    /\ pc' = "idle"
    /\ applied' = NoApplied
    /\ raised' = "none"
    /\ UNCHANGED << engine, clock, market_data, callVars, confidence,
                    invocations,
                    routeVars >>

NextHelpers ==
    \/ \E asset_sensitivity \in Sensitivities, severity \in Scores, sentiment \in Scores,
          days_ago \in Ages, attention \in Scores :
           ApplyInfluence(asset_sensitivity, severity, sentiment, days_ago, attention)
    \/ \E c24 \in PriceChangeValues, c7 \in PriceChangeValues,
          c30 \in PriceChangeValues, horizon \in Horizons :
           ApplyMomentum(c24, c7, c30, horizon)
    \/ \E days_ago \in RecencyAges : ApplyRecency(days_ago)
    \/ \E influences \in InfluenceLists, momentum \in MomentumValues :
           ApplyAggregate(influences, momentum)
    \/ ReturnApplied

SpecHelpers == Init /\ [][NextHelpers]_vars

\* ------------------------------------------------------------------------
\* routes/analysis_routes.py.  One request is handled at a time and its
\* locals are the fields of request.  The texts of the language model
\* (narratives, most likely scenario) are kept only as "generated".
\* ------------------------------------------------------------------------

engineVars ==
    << engine, clock, pc, market_data, raised, callVars, confidence, invocations,
       applied >>

\* the users table (models/user.py)
Users ==
    { [id |-> "id-alice", email |-> "alice@example.org"],
      [id |-> "id-bob", email |-> "bob@example.org"] }

\* the e-mail addresses in the bearer tokens of the requests
TokenEmails == { "alice@example.org", "bob@example.org", "ghost@example.org" }

NoUser == [id |-> "none", email |-> "none"]

\* utils/jwt_handler.py: the user with the token's e-mail; without one the
\* dependency raises 401 and the handler does not run
get_current_user(email) ==
    IF \E user \in Users : user.email = email
    THEN CHOOSE user \in Users : user.email = email
    ELSE NoUser

Unauthorized == [status |-> 401]

\* the request of a handler that has just been entered
Started(handler, user) ==
    [ NoRequest EXCEPT !.handler = handler, !.user_id = user.id,
                       !.reports_at_start = reports ]

\* reports stored by analyses before the table is left alone
MaxReports == 1

\* what CoinGecko answers to search_asset and get_asset_details: no coin, no
\* details, details without (or with empty) market_data, details with
\* market_data
Lookups ==
    { [coin_data |-> FALSE, details |-> FALSE, has_market_data |-> FALSE,
       market_data |-> NoMarketData],
      [coin_data |-> TRUE, details |-> FALSE, has_market_data |-> FALSE,
       market_data |-> NoMarketData],
      [coin_data |-> TRUE, details |-> TRUE, has_market_data |-> FALSE,
       market_data |-> NoMarketData] }
        \cup { [coin_data |-> TRUE, details |-> TRUE, has_market_data |-> TRUE,
                market_data |-> md] :
                   md \in { NoMarketData,
                            [ price_change_percentage_24h |-> Num(-20000000),
                              price_change_percentage_7d |-> Num(-5000000),
                              price_change_percentage_30d |-> Num(12500000),
                              market_cap |-> Val("dict_num", 100),
                              total_volume |-> Val("dict_num", 5),
                              market_cap_rank |-> Num(42) ] } }

\* lines 57-63
AssetFound(lookup) == lookup.coin_data /\ lookup.details /\ lookup.has_market_data

\* analyze_asset, lines 45-67 and 96-102
AnalyzeAsset(email, lookup) ==
    /\ request.pc = "idle"
    /\ Len(reports) < MaxReports
    /\ LET user == get_current_user(email)
           started == Started("analyze_asset", user)
       IN  request' =
             IF user = NoUser
             THEN [ started EXCEPT !.pc = "responded", !.response = Unauthorized ]
             ELSE IF ~AssetFound(lookup)
             THEN [ started EXCEPT
                      !.pc = "responded",
                      !.response = [ status |-> 200, asset_found |-> FALSE,
                                     requires_profile |-> TRUE ] ]
             ELSE IF ProfileRaises(lookup.market_data)
             THEN [ started EXCEPT !.pc = "raised", !.raised = "ValueError" ]
             ELSE [ started EXCEPT
                      !.pc = "profile",
                      !.asset_profile =
                          create_asset_profile_from_coingecko(engine,
                                                              lookup.market_data) ]
    /\ UNCHANGED << engineVars, reports >>

\* lines 68-94: the name and the symbol are stored in the profile
NameProfile ==
    /\ request.pc = "profile"
    /\ request' = [ request EXCEPT
                      !.pc = "found",
                      !.asset_profile =
                          [asset_name |-> "Bitcoin", symbol |-> "BTC"] @@ @ ]
    /\ UNCHANGED << engineVars, reports >>

\* what macro_service returns: the trend of the interest rate or None, the
\* year-over-year inflation (percent) or None, and at most 5 articles
\* (macro_service.py line 148), each with the sentiment that
\* classify_event_sentiment gives its text and a description that may be null
InterestForms == { "none", "rising", "stable" }

InflationForms == { PyNone, Num(4200000), Num(2000000) }

Article(sentiment, description) == [sentiment |-> sentiment, description |-> description]

NewsLists ==
    { [ k \in 1..n |-> Article(<< 700000, 300000, 500000 >>[(k % 3) + 1], PyStr) ] :
          n \in 0..5 }
        \cup { << Article(700000, PyStr), Article(300000, PyNone) >> }

\* lines 119-127
InterestEvent(trend, now) ==
    Event(TypeName("interest_rate"), Num(700000),
          Num(IF trend = "rising" THEN 400000 ELSE 600000), Num(800000),
          Val("datetime", now))

\* lines 130-138
InflationEvent(yoy_inflation, now) ==
    Event(TypeName("interest_rate"), Num(Min(DivBy(Abs(yoy_inflation), 10), ONE)),
          Num(IF yoy_inflation > 3 * ONE THEN 300000 ELSE 600000), Num(700000),
          Val("datetime", now))

\* lines 155-162
NewsEvent(article, now) ==
    Event(TypeName("regulation"), Num(600000), Num(article.sentiment), Num(700000),
          Val("datetime", now))

\* s[:n]
Take(s, n) == SubSeq(s, 1, Min(n, Len(s)))

\* line 144: title + " " + description raises TypeError on a null description
ArticleRaises(article) == article.description.tag = "none"

\* lines 104-162
FetchMacro(interest_rate_data, inflation_data, crypto_news) ==
    /\ request.pc = "found"
    /\ LET rate == IF interest_rate_data = "none" THEN << >>
                   ELSE << InterestEvent(interest_rate_data, clock) >>
           inflation == IF inflation_data.tag = "none" THEN << >>
                        ELSE << InflationEvent(inflation_data.v, clock) >>
           top == Take(crypto_news, 5)
           news == [ k \in 1..Len(top) |-> NewsEvent(top[k], clock) ]
       IN  request' =
             IF \E k \in 1..Len(top) : ArticleRaises(top[k])
             THEN [ request EXCEPT !.pc = "raised", !.fetched = TRUE,
                                   !.raised = "TypeError" ]
             ELSE [ request EXCEPT !.pc = "events", !.fetched = TRUE,
                                   !.macro_events = rate \o inflation \o news ]
    /\ UNCHANGED << engineVars, reports >>

\* mutant: scoring stores the recency it computed in each event record
Score_Annotating ==
    /\ request.pc = "events"
    /\ request' = [ request EXCEPT
                      !.pc = "scored",
                      !.probabilities =
                          ProbabilitiesAt(request.asset_profile,
                                          request.macro_events, clock),
                      !.macro_events =
                          [ k \in 1..Len(request.macro_events) |->
                              [recency |-> Num(ONE)] @@ request.macro_events[k] ] ]
    /\ UNCHANGED << engineVars, reports >>

\* lines 164-169: the call of the aggregation (its events are of this instant)
Score ==
    /\ request.pc = "events"
    /\ request' = [ request EXCEPT
                      !.pc = "scored",
                      !.probabilities =
                          ProbabilitiesAt(request.asset_profile,
                                          request.macro_events, clock) ]
    /\ UNCHANGED << engineVars, reports >>

\* lines 171-190
Narrate ==
    /\ request.pc = "scored"
    /\ request' = [ request EXCEPT !.pc = "narrated", !.narratives = TRUE ]
    /\ UNCHANGED << engineVars, reports >>

\* mutant: the quality is the default of the lookup
RouteDataQuality_Default(profile) == "medium"

\* line 195: asset_profile.get('data_quality', 'medium')
RouteDataQuality(profile) == ProfileGet(profile, "data_quality", "medium")

\* lines 192-211
Rate ==
    /\ request.pc = "narrated"
    /\ request' = [ request EXCEPT
                      !.pc = "rated",
                      !.confidence =
                          determine_confidence_level(Len(request.macro_events),
                              RouteDataQuality(request.asset_profile)) ]
    /\ UNCHANGED << engineVars, reports >>

\* lines 214-225 and models/report.py: a row of the reports table
ReportRow(id, user_id, token_name, probs, confidence_level, now) ==
    [ id |-> id, user_id |-> user_id, token_name |-> token_name,
      short_term_prob |-> probs.short_term,
      medium_term_prob |-> probs.medium_term,
      long_term_prob |-> probs.long_term,
      confidence_level |-> confidence_level, pdf_path |-> "none",
      created_at |-> now ]

\* lines 213-229
SaveReport ==
    /\ request.pc = "rated"
    /\ reports' = Append(reports,
                         ReportRow(Len(reports) + 1, request.user_id,
                                   request.asset_profile.asset_name,
                                   request.probabilities, request.confidence, clock))
    /\ request' = [ request EXCEPT !.pc = "saved", !.report_id = Len(reports) + 1 ]
    /\ UNCHANGED engineVars

\* lines 231-248
Respond ==
    /\ request.pc = "saved"
    /\ request' = [ request EXCEPT
                      !.pc = "responded",
                      !.response =
                          [ status |-> 200, asset_found |-> TRUE,
                            asset_name |-> request.asset_profile.asset_name,
                            symbol |-> ProfileGet(request.asset_profile, "symbol", ""),
                            probabilities |-> request.probabilities,
                            confidence_level |-> request.confidence,
                            report_id |-> request.report_id,
                            macro_events_analyzed |-> Len(request.macro_events) ] ]
    /\ UNCHANGED << engineVars, reports >>

\* the response (or the exception) has left the handler
ReturnRoute ==
    /\ request.pc \in {"responded", "raised"}
    /\ request' = NoRequest
    /\ UNCHANGED << engineVars, reports >>

NextRoute ==
    \/ \E email \in TokenEmails, lookup \in Lookups : AnalyzeAsset(email, lookup)
    \/ NameProfile
    \/ \E interest_rate_data \in InterestForms, inflation_data \in InflationForms,
          crypto_news \in NewsLists :
           FetchMacro(interest_rate_data, inflation_data, crypto_news)
    \/ Score
    \/ Narrate
    \/ Rate
    \/ SaveReport
    \/ Respond
    \/ ReturnRoute

SpecRoute == Init /\ [][NextRoute]_vars

\* ------------------------------------------------------------------------
\* The reports table that analyses leave behind, and the two handlers of
\* analysis_routes.py that read it
\* ------------------------------------------------------------------------

StoredProbabilities ==
    [ short_term |-> 455000, medium_term |-> 500000, long_term |-> 545000 ]

\* the rows of size analyses, in the order of their insertion: every
\* bob_every-th one was asked by the second user (0: none of them); with
\* paired, two successive analyses were stored at the same instant
ReportTable(size, bob_every, paired) ==
    [ k \in 1..size |->
        ReportRow(k,
                  IF bob_every > 0 /\ k % bob_every = 0 THEN "id-bob" ELSE "id-alice",
                  "Bitcoin", StoredProbabilities, "Medium",
                  IF paired THEN (k + 1) \div 2 ELSE k) ]

TableSizes == { 0, 1, 2, 3, 21, 33 }

ReportTables ==
    { ReportTable(size, bob_every, FALSE) : size \in TableSizes, bob_every \in {0, 2, 3} }
        \cup { ReportTable(size, bob_every, TRUE) : size \in {2, 3}, bob_every \in {0, 3} }

InitReports == InitEngine /\ reports \in ReportTables /\ request = NoRequest

\* the ids that generate_pdf_report is asked for; the last one is of no report
RequestedIds == { 1, 2, 3, 34 }

\* .limit(20), line 260
ReportsLimit == 20

\* filter(Report.user_id == current_user.id), line 259
OwnedBy(table, user_id) ==
    { table[k] : k \in { j \in 1..Len(table) : table[j].user_id = user_id } }

\* order_by(Report.created_at.desc()), line 260: the rows from the newest to
\* the oldest; the database orders rows of one instant as it likes
RECURSIVE Listings(_)
Listings(rows) ==
    IF rows = {} THEN { << >> }
    ELSE LET newest == { r \in rows : \A other \in rows : other.created_at <= r.created_at }
         IN  UNION { { << r >> \o rest : rest \in Listings(rows \ {r}) } : r \in newest }

\* lines 264-272: what the response shows of a report
ReportData(report) ==
    [ id |-> report.id, token_name |-> report.token_name,
      short_term_prob |-> report.short_term_prob,
      medium_term_prob |-> report.medium_term_prob,
      long_term_prob |-> report.long_term_prob,
      confidence_level |-> report.confidence_level,
      created_at |-> report.created_at ]

\* get_user_reports, lines 251-277
GetUserReports(email) ==
    /\ request.pc = "idle"
    /\ LET user == get_current_user(email)
           started == Started("get_user_reports", user)
       IN  IF user = NoUser
           THEN request' = [ started EXCEPT !.pc = "responded",
                                            !.response = Unauthorized ]
           ELSE \E listing \in Listings(OwnedBy(reports, user.id)) :
                  LET rows == Take(listing, ReportsLimit)
                      reports_data == [ k \in 1..Len(rows) |-> ReportData(rows[k]) ]
                  IN  request' = [ started EXCEPT
                                     !.pc = "responded",
                                     !.response = [ status |-> 200,
                                                    reports |-> reports_data,
                                                    total |-> Len(reports_data) ] ]
    /\ UNCHANGED << engineVars, reports >>

\* mutant: the report is looked up by its id alone
FindReport_AnyOwner(table, report_id, user_id) ==
    { k \in 1..Len(table) : table[k].id = report_id }

\* lines 290-293: filter(Report.id == report_id, Report.user_id == current_user.id)
FindReport(table, report_id, user_id) ==
    { k \in 1..Len(table) : table[k].id = report_id /\ table[k].user_id = user_id }

\* pdf_service.generate_report returns the path of the file it wrote
PdfPath == "reports/stratify_report_Bitcoin.pdf"

\* generate_pdf_report, lines 280-336
GeneratePdf(email, report_id) ==
    /\ request.pc = "idle"
    /\ LET user == get_current_user(email)
           started == [ Started("generate_pdf_report", user) EXCEPT
                          !.report_id = report_id ]
           found == FindReport(reports, report_id, user.id)
       IN  IF user = NoUser
           THEN /\ request' = [ started EXCEPT !.pc = "responded",
                                               !.response = Unauthorized ]
                /\ reports' = reports
           ELSE IF found = {}
           THEN /\ request' = [ started EXCEPT
                                  !.pc = "responded",
                                  !.response = [ status |-> 404,
                                                 detail |-> "Report not found" ] ]
                /\ reports' = reports
           ELSE /\ reports' = [ reports EXCEPT
                                  ![CHOOSE k \in found : TRUE].pdf_path = PdfPath ]
                /\ request' = [ started EXCEPT
                                  !.pc = "responded",
                                  !.response = [ status |-> 200, path |-> PdfPath ] ]
    /\ UNCHANGED engineVars

NextReports ==
    \/ \E email \in TokenEmails : GetUserReports(email)
    \/ \E email \in TokenEmails, report_id \in RequestedIds : GeneratePdf(email, report_id)
    \/ ReturnRoute

SpecReports == InitReports /\ [][NextReports]_vars

\* ------------------------------------------------------------------------
\* Claims
\* ------------------------------------------------------------------------

Neutral == [short_term |-> 500000, medium_term |-> 500000, long_term |-> 500000]

PriceChangeKeys == {"price_change_24h", "price_change_7d", "price_change_30d"}

\* the profile's price changes are zero or absent
ZeroPriceChanges(profile) ==
    \A key \in PriceChangeKeys : key \notin DOMAIN profile \/ profile[key] = 0

IsScore(val) == val.tag = "num" /\ val.v >= 0 /\ val.v <= ONE

\* an event as the input contract describes it: scores in [0,1], a timestamp
ValidEvent(e) ==
    /\ IsScore(e.severity_score)
    /\ IsScore(e.sentiment_score)
    /\ IsScore(e.attention_score)
    /\ e.created_at.tag = "datetime"

AllValid(events) == \A k \in 1..Len(events) : ValidEvent(events[k])

InUnit(p) == p >= 0 /\ p <= ONE

\* the entries of a log that were at most limit days old when bucketed
Within(log, limit) ==
    LET Young(entry) == entry.days_ago <= limit IN SelectSeq(log, Young)

InfluencesOf(log) == [ k \in 1..Len(log) |-> log[k].influence ]

\* a log without its k-th entry
Drop(log, k) == SubSeq(log, 1, k - 1) \o SubSeq(log, k + 1, Len(log))

\* C1: for every asset profile and every list of valid events (any length,
\* scores in [0,1], any timestamps) the call returns a triple, each
\* probability in [0,1].
C1_ReturnsProbabilitiesInUnit ==
    (pc \in {"done", "raised"} /\ asset_profile # NoneProfile /\ AllValid(macro_events)) =>
        /\ pc = "done"
        /\ \A h \in Horizons : InUnit(probabilities[h])

\* C2: an empty event list with price changes all zero or absent returns
\* exactly 0.5 on all three horizons.
C2_EmptyAndFlatIsNeutral ==
    (pc = "done" /\ macro_events = << >> /\ ZeroPriceChanges(asset_profile)) =>
        probabilities = Neutral

C2_Witness ==
    /\ pc = "done"
    /\ macro_events = << >>
    /\ ZeroPriceChanges(asset_profile)

\* C3: an influence is in the short_term bucket iff the event's age in days is
\* <= 30, in the medium_term bucket iff it is <= 180, and always in the
\* long_term bucket; so the short_term and medium_term probabilities are those
\* of the list without any event older than 180 days.
C3_BucketsByAge ==
    /\ pc \in {"loop", "bucket", "done"} =>
          /\ short_term_influences = InfluencesOf(Within(scored, 30))
          /\ medium_term_influences = InfluencesOf(Within(scored, 180))
          /\ long_term_influences = InfluencesOf(scored)
    /\ pc = "done" =>
          \A k \in 1..Len(scored) :
              scored[k].days_ago > 180 =>
                  /\ probabilities.short_term =
                        HorizonProbability(InfluencesOf(Within(Drop(scored, k), 30)),
                                           asset_profile, "short_term")
                  /\ probabilities.medium_term =
                        HorizonProbability(InfluencesOf(Within(Drop(scored, k), 180)),
                                           asset_profile, "medium_term")

C3_Witness ==
    /\ pc = "done"
    /\ \E k \in 1..Len(scored) : scored[k].days_ago > 180 /\ scored[k].influence # 0
    /\ \E k \in 1..Len(scored) : scored[k].days_ago <= 30 /\ scored[k].influence # 0

\* C4: the bucket boundaries are inclusive in whole days: the iteration of an
\* event whose whole-day age is 30 appends to short_term and medium_term, 180
\* appends to medium_term and not to short_term, 31 is the first age left out
\* of short_term and 181 the first left out of medium_term.
C4_InclusiveBoundaries ==
    [][ (pc = "bucket" /\ pc' = "loop") =>
          LET days_ago == DaysAgo(clock, cur.event_date)
              toShort == short_term_influences' = Append(short_term_influences, cur.influence)
              toMedium == medium_term_influences' = Append(medium_term_influences, cur.influence)
              notShort == short_term_influences' = short_term_influences
              notMedium == medium_term_influences' = medium_term_influences
          IN  /\ days_ago = 30 => toShort /\ toMedium
              /\ days_ago = 31 => notShort /\ toMedium
              /\ days_ago = 180 => notShort /\ toMedium
              /\ days_ago = 181 => notShort /\ notMedium
              /\ days_ago < 30 => toShort /\ toMedium ]_vars

C4_Witness ==
    /\ pc = "done"
    /\ \E j, k \in 1..Len(scored) :
          /\ scored[j].days_ago = 30
          /\ scored[k].days_ago = 181
          /\ Len(short_term_influences) = 1
          /\ Len(medium_term_influences) = 1

\* the k-th event has sentiment 0.4 and positive severity, attention, recency
Raisable(k) ==
    /\ ValidEvent(macro_events[k])
    /\ macro_events[k].sentiment_score.v = 400000
    /\ macro_events[k].severity_score.v > 0
    /\ macro_events[k].attention_score.v > 0
    /\ scored[k].recency > 0

\* the influence of the k-th event with its sentiment raised to 0.9
RaisedInfluence(k) ==
    LET event == [macro_events[k] EXCEPT !.sentiment_score = Num(900000)]
    IN  EventInfluence(engine, asset_profile, event, scored[k].recency)

\* the horizon's probability with the k-th event's sentiment raised to 0.9
RaisedProbability(k, limit, horizon) ==
    LET log == [scored EXCEPT ![k].influence = RaisedInfluence(k)]
    IN  HorizonProbability(InfluencesOf(Within(log, limit)), asset_profile, horizon)

\* a limit no age reaches: the long_term bucket
NoLimit == 1000 * 1000

\* C5 as stated: raising one event's sentiment from 0.4 to 0.9 strictly
\* increases its influence and strictly increases every returned horizon
\* probability whose bucket contains the event.
C5_StrictlyIncreasesProbabilities ==
    pc = "done" =>
        \A k \in 1..Len(scored) :
            Raisable(k) =>
                /\ RaisedInfluence(k) > scored[k].influence
                /\ scored[k].days_ago <= 30 =>
                      RaisedProbability(k, 30, "short_term") > probabilities.short_term
                /\ scored[k].days_ago <= 180 =>
                      RaisedProbability(k, 180, "medium_term") > probabilities.medium_term
                /\ RaisedProbability(k, NoLimit, "long_term") > probabilities.long_term

\* C5 amended: raising one event's sentiment from 0.4 to 0.9 strictly increases
\* its influence and decreases no returned horizon probability (a probability
\* rounded to 3 decimals may stay the same).
C5_NeverDecreasesProbabilities ==
    pc = "done" =>
        \A k \in 1..Len(scored) :
            Raisable(k) =>
                /\ RaisedInfluence(k) > scored[k].influence
                /\ RaisedProbability(k, 30, "short_term") >= probabilities.short_term
                /\ RaisedProbability(k, 180, "medium_term") >= probabilities.medium_term
                /\ RaisedProbability(k, NoLimit, "long_term") >= probabilities.long_term

C5_Witness ==
    /\ pc = "done"
    /\ \E k \in 1..Len(scored) :
          /\ Raisable(k)
          /\ scored[k].days_ago <= 30
          /\ RaisedProbability(k, 30, "short_term") > probabilities.short_term
          /\ RaisedProbability(k, NoLimit, "long_term") > probabilities.long_term

NeutralEvent(e) == Sentiment(e) = Num(500000)

\* C6: an event with sentiment exactly 0.5 has influence exactly 0, and a
\* non-empty list of neutral events with zero momentum returns 0.5 on every
\* horizon.
C6_NeutralSentiment ==
    /\ (pc = "bucket" /\ NeutralEvent(macro_events[idx])) => cur.influence = 0
    /\ ( /\ pc = "done"
         /\ macro_events # << >>
         /\ \A k \in 1..Len(macro_events) : NeutralEvent(macro_events[k])
         /\ ZeroPriceChanges(asset_profile) ) => probabilities = Neutral

C6_Witness ==
    /\ pc = "done"
    /\ macro_events # << >>
    /\ \A k \in 1..Len(macro_events) :
          /\ NeutralEvent(macro_events[k])
          /\ ValidEvent(macro_events[k])
          /\ scored[k].recency > 0
    /\ ZeroPriceChanges(asset_profile)

\* C7: determine_confidence_level is the decision table: High iff quality is
\* high and there are >= 5 events; otherwise Medium iff quality is medium or
\* there are >= 3 events; otherwise Low.
C7_ConfidenceTable ==
    pc = "rated" =>
        LET n == confidence.num_events
            q == confidence.asset_data_quality
            isHigh == q = "high" /\ n >= 5
            isMedium == ~isHigh /\ (q = "medium" \/ n >= 3)
        IN  /\ confidence.level = "High" <=> isHigh
            /\ confidence.level = "Medium" <=> isMedium
            /\ confidence.level = "Low" <=> (~isHigh /\ ~isMedium)

C7_Witness ==
    /\ pc = "rated"
    /\ confidence.num_events = 0
    /\ confidence.asset_data_quality = "medium"
    /\ confidence.level = "Medium"

\* {"usd": x} replaced by x
Unwrap(val) ==
    CASE val.tag = "dict_num"  -> Num(val.v)
      [] val.tag = "dict_none" -> PyNone
      [] val.tag = "dict_str"  -> PyStr
      [] OTHER                 -> val

\* the record with every currency-keyed price change, market cap and volume
\* replaced by its scalar
ScalarForm(md) ==
    [ md EXCEPT !.price_change_percentage_24h = Unwrap(@),
                !.price_change_percentage_7d = Unwrap(@),
                !.price_change_percentage_30d = Unwrap(@),
                !.market_cap = Unwrap(@),
                !.total_volume = Unwrap(@) ]

\* C8: a record carrying a field as {"usd": x} gives the same profile as the
\* record carrying the scalar x.
C8_CurrencyKeyedAsScalar ==
    /\ pc = "profiled" =>
          /\ ~ProfileRaises(ScalarForm(market_data))
          /\ asset_profile = create_asset_profile_from_coingecko(engine, ScalarForm(market_data))
    /\ (pc = "raised" /\ raised = "ValueError") => ProfileRaises(ScalarForm(market_data))

C8_Witness ==
    /\ pc = "profiled"
    /\ market_data.price_change_percentage_24h = Val("dict_num", 12500000)
    /\ market_data.market_cap = Val("dict_num", 100)
    /\ market_data.total_volume = Val("dict_num", 5)
    /\ asset_profile.price_change_24h = 12500000
    /\ asset_profile.liquidity_sensitivity = 500000

\* C9: two calls with the same profile and the same event list, evaluated at the
\* same instant, return the same triple: with the clock at one instant for
\* the whole call, the triple is the function ProbabilitiesAt of the profile,
\* the list and that instant.
C9_ResultIsFunctionOfInputsAndNow ==
    (pc = "done" /\ clock = call_clock) =>
        probabilities = ProbabilitiesAt(asset_profile, macro_events, call_clock)

C9_Witness ==
    /\ pc = "done"
    /\ clock = call_clock
    /\ Len(macro_events) >= 2
    /\ probabilities.short_term # probabilities.medium_term
    /\ probabilities.medium_term # probabilities.long_term

SensitivityFactors ==
    { "liquidity_sensitivity", "regulation_sensitivity",
      "interest_rate_sensitivity", "geopolitical_sensitivity" }

\* C10: in every profile built from any market-data record, the four
\* sensitivities lie in [0.15, 1] and volatility_level in [0.05, 1].
C10_FactorsInRange ==
    pc = "profiled" =>
        /\ \A f \in SensitivityFactors :
              asset_profile[f] >= 150000 /\ asset_profile[f] <= ONE
        /\ asset_profile.volatility_level >= 50000
        /\ asset_profile.volatility_level <= ONE

ProfileKeys ==
    { "volatility_level", "liquidity_sensitivity", "regulation_sensitivity",
      "interest_rate_sensitivity", "geopolitical_sensitivity", "data_quality",
      "price_change_24h", "price_change_7d", "price_change_30d" }

\* C11: create_asset_profile_from_coingecko never raises and returns a profile
\* with the five factors, data_quality and the three price changes, whatever
\* form (absent, null, scalar, currency-keyed, malformed) the record's numeric
\* fields take.
C11_ProfileNeverRaises ==
    pc \in {"profiled", "raised"} =>
        /\ pc = "profiled"
        /\ DOMAIN asset_profile = ProfileKeys

\* C12: a call of the aggregation with a missing (None) asset profile fails,
\* the failure reaches the caller, and no probability triple is returned.
C12_MissingProfileIsAnError ==
    (pc \in {"loop", "bucket", "done", "raised"} /\ asset_profile = NoneProfile) =>
        /\ pc = "raised"
        /\ raised = "AttributeError"
        /\ probabilities = NoProbabilities

C12_Witness ==
    /\ pc = "raised"
    /\ asset_profile = NoneProfile
    /\ macro_events # << >>
    /\ AllValid(macro_events)

\* C13: within one call every event age is measured against one instant: the
\* age used for an event's recency equals the age used for its bucket, and
\* all events are aged against the "now" of the call's start, even if the
\* wall clock advances during the call.
C13_OneInstantPerCall ==
    pc \in {"loop", "bucket", "done"} =>
        \A k \in 1..Len(scored) :
            /\ scored[k].recency_days = scored[k].days_ago
            /\ scored[k].days_ago = AgeAt(macro_events[k], call_clock)

\* what a call returns when it runs alone on a fresh engine, given its
\* arguments and the ages it read from the clock
AloneProbabilities(frame) ==
    LET log == [ k \in 1..Len(frame.scored) |->
                   [ days_ago |-> frame.scored[k].days_ago,
                     influence |->
                        EventInfluence(EngineInit, frame.asset_profile,
                            frame.macro_events[k],
                            calculate_recency_score(frame.scored[k].recency_days)) ] ]
    IN  [ short_term |-> HorizonProbability(InfluencesOf(Within(log, 30)),
                                            frame.asset_profile, "short_term"),
          medium_term |-> HorizonProbability(InfluencesOf(Within(log, 180)),
                                             frame.asset_profile, "medium_term"),
          long_term |-> HorizonProbability(InfluencesOf(log),
                                           frame.asset_profile, "long_term") ]

\* C14: under any interleaving of concurrent calls on the shared engine each
\* call returns what it would return alone, and the engine's amplification,
\* weight table and sensitivity floor never change.
C14_CallersDoNotInterfere ==
    /\ engine = EngineInit
    /\ \A caller \in Callers :
          invocations[caller].pc = "done" =>
              invocations[caller].probabilities =
                  AloneProbabilities(invocations[caller])

C14_Witness ==
    /\ invocations["first"].pc = "done"
    /\ invocations["first"].overlapped
    /\ invocations["second"].pc = "loop"
    /\ invocations["second"].short_term_influences # << >>
    /\ invocations["second"].asset_profile # invocations["first"].asset_profile
    /\ invocations["first"].probabilities.short_term
          # invocations["first"].probabilities.long_term

\* the lists that hold the events of a list in another order
Reorderings(events) ==
    { [ k \in 1..Len(events) |-> events[f[k]] ] : f \in Permutations(1..Len(events)) }

\* C15: the triple does not depend on the order of the events: every
\* reordering of the list, with the same profile and the same now, gives
\* the same three probabilities.
C15_OrderOfEventsIsIrrelevant ==
    pc = "done" =>
        \A reordered \in Reorderings(macro_events) :
            ProbabilitiesAt(asset_profile, reordered, call_clock) = probabilities

\* C16: for severity, sentiment and attention in [0,1], any sensitivity the
\* profile can hold and any timestamp, the influence of an event lies in
\* [-1, 1].
C16_InfluenceInUnitInterval ==
    (pc = "applied" /\ applied.fn = "calculate_influence_score") =>
        applied.result >= -ONE /\ applied.result <= ONE

\* a field of the record as a number: the scalar, or the mapping's "usd"
\* entry; 0 when there is none
Normalized(field) ==
    LET val == Unwrap(field) IN IF val.tag = "num" THEN val.v ELSE 0

\* C17: liquidity is min((volume / marketCap) / 0.1, 1.0) when the normalized
\* market cap is > 0 and 0.1 otherwise, and liquidity_sensitivity is
\* max(1 - liquidity, 0.15); so a record with no usable market cap gets 0.9.
C17_LiquidityOfUnusableCap ==
    pc = "profiled" =>
        LET marketCap == Normalized(market_data.market_cap)
            volume == Normalized(market_data.total_volume)
            liquidity == IF marketCap > 0
                         THEN Min(DivFP(DivFP(volume, marketCap), 100000), ONE)
                         ELSE 100000
        IN  asset_profile.liquidity_sensitivity = Max(ONE - liquidity, 150000)

\* max(min(rank / 100, 1.0), 0.15)
RegulationOfRank(rank) == Max(Min(DivBy(rank * ONE, 100), ONE), 150000)

\* C18 as stated: regulation_sensitivity is max(min(rank/100, 1.0), 0.15) for a
\* numeric market_cap_rank, and exactly 1.0 (rank 1000) for a missing, null,
\* non-numeric or mapping-valued rank.
C18_RegulationFromNumericRank ==
    pc = "profiled" =>
        asset_profile.regulation_sensitivity =
            IF market_data.market_cap_rank.tag = "num"
            THEN RegulationOfRank(market_data.market_cap_rank.v)
            ELSE ONE

\* C18 amended: the formula holds for a numeric rank other than 0; a rank of
\* 0 is treated like a missing, null, non-numeric or mapping-valued rank,
\* as 1000, which gives exactly 1.0.
C18_RegulationFromNonZeroRank ==
    pc = "profiled" =>
        asset_profile.regulation_sensitivity =
            IF market_data.market_cap_rank.tag = "num"
                  /\ market_data.market_cap_rank.v # 0
            THEN RegulationOfRank(market_data.market_cap_rank.v)
            ELSE ONE

C18_Witness ==
    /\ pc = "profiled"
    /\ market_data.market_cap_rank = Num(42)
    /\ asset_profile.regulation_sensitivity = 420000

\* C19: with v the volatility floored at 0.05, the value reported as
\* volatility_level, interest_rate_sensitivity is max(0.8 * v + 0.15, 0.15)
\* and geopolitical_sensitivity is max(0.6 * v + 0.1, 0.15), also where the
\* floor is active.
C19_SensitivitiesFromFlooredVolatility ==
    pc = "profiled" =>
        LET v == asset_profile.volatility_level
        IN  /\ asset_profile.interest_rate_sensitivity =
                  Max(MulFP(v, 800000) + 150000, 150000)
            /\ asset_profile.geopolitical_sensitivity =
                  Max(MulFP(v, 600000) + 100000, 150000)

\* clamp to [-1, 1]
Clamp(x) == IF x > ONE THEN ONE ELSE IF x < -ONE THEN -ONE ELSE x

\* the weights of the 24h, 7d and 30d windows
WeightTable ==
    [ short_term  |-> << 500000, 300000, 200000 >>,
      medium_term |-> << 150000, 350000, 500000 >>,
      long_term   |-> <<  50000, 150000, 800000 >> ]

\* C20: the momentum of a horizon is w24*clamp(c24/10) + w7*clamp(c7/10) +
\* w30*clamp(c30/10) with the horizon's weights; the weights sum to 1, the
\* momentum lies in [-1, 1] and is +1 (-1) when the three windows are all
\* >= +10% (<= -10%).
C20_MomentumIsWeightedClampedSum ==
    (pc = "applied" /\ applied.fn = "calculate_momentum_signal") =>
        LET c24 == applied.args[1]
            c7 == applied.args[2]
            c30 == applied.args[3]
            w == WeightTable[applied.args[4]]
        IN  /\ applied.result = MulFP(w[1], Clamp(DivBy(c24, 10)))
                                + MulFP(w[2], Clamp(DivBy(c7, 10)))
                                + MulFP(w[3], Clamp(DivBy(c30, 10)))
            /\ w[1] + w[2] + w[3] = ONE
            /\ applied.result >= -ONE /\ applied.result <= ONE
            /\ (c24 >= 10 * ONE /\ c7 >= 10 * ONE /\ c30 >= 10 * ONE) =>
                  applied.result = ONE
            /\ (c24 <= -10 * ONE /\ c7 <= -10 * ONE /\ c30 <= -10 * ONE) =>
                  applied.result = -ONE

C20_Witness ==
    /\ pc = "applied"
    /\ applied.fn = "calculate_momentum_signal"
    /\ applied.args = << 10 * ONE, 60 * ONE, 10 * ONE, "long_term" >>
    /\ applied.result = ONE

\* C21: the probability of a horizon before rounding is
\* sigmoid(8.0 * sum of the bucket's influences + 2.5 * momentum): it is
\* strictly increasing in the combined signal, is 0.5 exactly when the
\* combined signal is 0, above 0.5 iff it is positive and below 0.5 iff it is
\* negative.
C21_ProbabilityIsSigmoidOfCombined ==
    (pc \in {"applied", "raised"} /\ applied.fn = "aggregate_influences") =>
        LET Combined(influences, momentum) ==
                MulFP(8 * ONE, SumSeq(influences)) + MulFP(2500000, momentum)
            combined == Combined(applied.args[1], applied.args[2])
        IN  /\ pc = "applied"
            /\ applied.result = Sigmoid(combined)
            /\ applied.result = 500000 <=> combined = 0
            /\ applied.result > 500000 <=> combined > 0
            /\ applied.result < 500000 <=> combined < 0
            /\ \A influences \in InfluenceLists, momentum \in MomentumValues :
                  Combined(influences, momentum) > combined =>
                      /\ ~AggregateRaises(engine, influences, momentum)
                      /\ aggregate_influences(engine, influences, momentum)
                            > applied.result

\* C22: the recency score is the 14-day half-life decay of the whole-day age
\* d, clamped to [0,1]: exactly 1 for d <= 0 (timestamps in the future
\* included), strictly below 1 for d >= 1, non-increasing in d, never
\* negative, and it halves for every additional 14 days of age.
C22_RecencyHalvesEvery14Days ==
    (pc \in {"applied", "raised"} /\ applied.fn = "calculate_recency_score") =>
        LET d == applied.args[1]
        IN  /\ pc = "applied"
            /\ d <= 0 => applied.result = ONE
            /\ d >= 1 => applied.result < ONE
            /\ applied.result >= 0
            /\ \A older \in RecencyAges :
                  (older >= d /\ ~RecencyRaises(older)) =>
                      calculate_recency_score(older) <= applied.result
            /\ (d >= 0 /\ d + 14 \in RecencyAges) =>
                  Abs(2 * calculate_recency_score(d + 14) - applied.result) <= 2

\* the event types for which a profile holds a sensitivity
SensitivityOf ==
    [ liquidity |-> "liquidity_sensitivity", regulation |-> "regulation_sensitivity",
      interest_rate |-> "interest_rate_sensitivity",
      geopolitical |-> "geopolitical_sensitivity" ]

\* max(profile[event_type + "_sensitivity"], 0.15), with 0.4 for the profile's
\* entry when the event has no type, an unrecognized one, or the profile has
\* no such key
UsedSensitivity(profile, event) ==
    LET type == event.event_type
        stored == IF /\ type.tag = "str"
                     /\ type.name \in DOMAIN SensitivityOf
                     /\ SensitivityOf[type.name] \in DOMAIN profile
                  THEN profile[SensitivityOf[type.name]]
                  ELSE 400000
    IN  Max(stored, 150000)

\* C23: the sensitivity used to score an event is
\* max(profile[event_type + "_sensitivity"], 0.15), with the default 0.4 when
\* the profile has no such key; so an event with non-neutral sentiment and
\* positive severity, attention and recency has a non-zero influence, even
\* when the profile stores 0 for that sensitivity.
C23_SensitivityFlooredAndDefaulted ==
    pc \in {"loop", "bucket", "done"} =>
        \A k \in 1..Len(scored) :
            LET event == macro_events[k]
                sens == UsedSensitivity(asset_profile, event)
                magnitude == MulFP(MulFP(MulFP(sens, Severity(event).v),
                                         scored[k].recency), Attention(event).v)
            IN  /\ scored[k].influence =
                      MulFP(magnitude, (Sentiment(event).v - 500000) * 2)
                /\ ( /\ Sentiment(event).v # 500000
                     /\ Severity(event).v > 0
                     /\ Attention(event).v > 0
                     /\ scored[k].recency > 0 ) => scored[k].influence # 0

C23_Witness ==
    /\ pc = "done"
    /\ asset_profile = ZeroProfile
    /\ \E j, k \in 1..Len(scored) :
          /\ macro_events[j].event_type = TypeName("regulation")
          /\ scored[j].influence # 0
          /\ macro_events[k].event_type.tag = "absent"
          /\ scored[k].influence = -80000

\* the sigmoid value of a horizon before it is rounded
Unrounded(horizon) ==
    LET bucket == CASE horizon = "short_term"  -> short_term_influences
                    [] horizon = "medium_term" -> medium_term_influences
                    [] OTHER                   -> long_term_influences
    IN  aggregate_influences(engine, bucket, Momentum(engine, asset_profile, horizon))

\* C24: each of the three returned probabilities is rounded to 3 decimal
\* digits: it is an integer multiple of 0.001 and differs from the unrounded
\* sigmoid value by at most 0.0005.
C24_RoundedToThreeDecimals ==
    pc = "done" =>
        \A h \in Horizons :
            /\ probabilities[h] % 1000 = 0
            /\ Abs(probabilities[h] - Unrounded(h)) <= 500

C24_Witness ==
    /\ pc = "done"
    /\ Unrounded("short_term") % 1000 > 500
    /\ probabilities.short_term > Unrounded("short_term")
    /\ Unrounded("long_term") % 1000 \in 1..499
    /\ probabilities.long_term < Unrounded("long_term")

\* a score as the claim reads it: the number, 0.5 when missing or malformed
ScoreOrDefault(val) == IF val.tag = "num" THEN val.v ELSE 500000

\* C26: the aggregation never raises on an event record with missing or
\* malformed (e.g. null) fields: a missing or malformed severity, sentiment or
\* attention score is scored as 0.5, a missing event type uses the default
\* sensitivity, and a missing or non-datetime created_at is treated as age 0
\* (recency 1, member of all three buckets).
C26_MalformedFieldsScoreAsDefaults ==
    /\ pc # "raised"
    /\ pc \in {"loop", "bucket", "done"} =>
          \A k \in 1..Len(scored) :
              LET event == macro_events[k]
                  sens == UsedSensitivity(asset_profile, event)
                  magnitude ==
                      MulFP(MulFP(MulFP(sens, ScoreOrDefault(event.severity_score)),
                                  scored[k].recency),
                            ScoreOrDefault(event.attention_score))
              IN  /\ scored[k].influence =
                        MulFP(magnitude,
                              (ScoreOrDefault(event.sentiment_score) - 500000) * 2)
                  /\ event.created_at.tag # "datetime" =>
                        /\ scored[k].recency = ONE
                        /\ scored[k].days_ago = 0

\* the entries of a list at the positions kept, in list order
RECURSIVE Picked(_, _, _)
Picked(list, kept, k) ==
    IF k > Len(list) THEN << >>
    ELSE (IF k \in kept THEN << list[k] >> ELSE << >>) \o Picked(list, kept, k + 1)

\* C27: in every call the three buckets are nested: every influence in the
\* short_term bucket is also in the medium_term bucket, every influence in the
\* medium_term bucket is also in the long_term bucket, the long_term bucket
\* holds exactly one influence per input event, and no event is counted twice
\* in a bucket.
C27_BucketsAreNested ==
    pc \in {"loop", "bucket", "done"} =>
        /\ Len(long_term_influences) = idx - 1
        /\ pc = "done" => Len(long_term_influences) = Len(macro_events)
        /\ \A k \in 1..Len(long_term_influences) :
              long_term_influences[k] = scored[k].influence
        /\ \E inMedium \in SUBSET (1..Len(long_term_influences)) :
              /\ medium_term_influences = Picked(long_term_influences, inMedium, 1)
              /\ \E inShort \in SUBSET inMedium :
                    short_term_influences = Picked(long_term_influences, inShort, 1)

C27_Witness ==
    /\ pc = "done"
    /\ Len(long_term_influences) = 2
    /\ Len(medium_term_influences) = 1
    /\ Len(short_term_influences) = 0
    /\ long_term_influences[1] # long_term_influences[2]
    /\ long_term_influences[1] # 0
    /\ long_term_influences[2] # 0

\* the steps of analyze_asset at which the profile has been returned by
\* create_asset_profile_from_coingecko, and those after its naming
AfterProfile == { "profile", "found", "events", "scored", "narrated", "rated", "saved" }

AfterNaming == AfterProfile \ { "profile" }

\* a step of the request in progress leaves the profile and the event records alone
KeepsProfileAndEvents ==
    /\ request'.asset_profile = request.asset_profile
    /\ request.pc \in { "events", "scored", "narrated", "rated", "saved" }
           => request'.macro_events = request.macro_events

\* C25: once create_asset_profile_from_coingecko has returned the profile, no
\* later step of the analysis request adds, removes or changes one of its
\* keys, and scoring never modifies an event record.
C25_ProfileImmutableOnceReturned ==
    [][ (request.pc \in AfterProfile /\ request'.pc # "idle") => KeepsProfileAndEvents ]_vars

\* C25 as amended: once the orchestrator has stored asset_name and symbol in
\* the profile (lines 68-69), no later step of the request adds, removes or
\* changes one of its keys, and no step modifies an event record.
C25_ProfileImmutableOnceNamed ==
    [][ (request.pc \in AfterNaming /\ request'.pc # "idle") => KeepsProfileAndEvents ]_vars

\* a named profile has been scored against events and its report stored
C25_Witness ==
    /\ request.pc = "saved"
    /\ Len(request.macro_events) >= 2
    /\ DOMAIN request.asset_profile =
           DOMAIN create_asset_profile_from_coingecko(engine, NoMarketData)
               \cup { "asset_name", "symbol" }

\* the events of the request by the branch that appended them
InterestEvents(events) ==
    { k \in 1..Len(events) : events[k].event_type = TypeName("interest_rate")
                             /\ events[k].attention_score = Num(800000) }

InflationEvents(events) ==
    { k \in 1..Len(events) : events[k].event_type = TypeName("interest_rate")
                             /\ events[k].attention_score = Num(700000) }

NewsEvents(events) ==
    { k \in 1..Len(events) : events[k].event_type = TypeName("regulation") }

\* C28: for a found asset the event list holds at most 7 events (at most one
\* interest-rate event, one inflation event, five news events), the
\* profile's data_quality is "high", and the persisted confidence is High
\* iff the count is >= 5, Medium iff it is 3 or 4, Low iff it is <= 2.
C28_ConfidenceFollowsEventCount ==
    /\ request.pc \in AfterNaming
           => ProfileGet(request.asset_profile, "data_quality", "medium") = "high"
    /\ request.pc \in { "events", "scored", "narrated", "rated", "saved" }
           => LET events == request.macro_events
              IN  /\ Len(events) <= 7
                  /\ Cardinality(InterestEvents(events)) <= 1
                  /\ Cardinality(InflationEvents(events)) <= 1
                  /\ Cardinality(NewsEvents(events)) <= 5
                  /\ InterestEvents(events) \cup InflationEvents(events)
                         \cup NewsEvents(events) = 1..Len(events)
    /\ request.pc = "saved"
           => LET count == Len(request.macro_events)
                  stored == reports[request.report_id].confidence_level
              IN  /\ stored = "High" <=> count >= 5
                  /\ stored = "Medium" <=> count \in {3, 4}
                  /\ stored = "Low" <=> count <= 2

\* a report with the label High stored for the full list of 7 events
C28_Witness ==
    /\ request.pc = "saved"
    /\ Len(request.macro_events) = 7
    /\ reports[request.report_id].confidence_level = "High"

\* (a) of C29: nothing found, and nothing fetched, scored, narrated or stored
RequiresProfileOnly ==
    /\ request.pc = "responded"
    /\ request.response = [ status |-> 200, asset_found |-> FALSE,
                            requires_profile |-> TRUE ]
    /\ ~request.fetched
    /\ request.probabilities = NoProbabilities
    /\ ~request.narratives
    /\ reports = request.reports_at_start

\* (b) of C29: exactly one report stored, owned by the authenticated user,
\* with the probabilities and the label of the response
StoredOneReport ==
    /\ request.pc = "responded"
    /\ request.response.status = 200
    /\ request.response.asset_found
    /\ Len(reports) = Len(request.reports_at_start) + 1
    /\ SubSeq(reports, 1, Len(request.reports_at_start)) = request.reports_at_start
    /\ LET report == reports[Len(reports)]
       IN  /\ report.id = request.response.report_id
           /\ report.user_id = request.user_id
           /\ report.short_term_prob = request.response.probabilities.short_term
           /\ report.medium_term_prob = request.response.probabilities.medium_term
           /\ report.long_term_prob = request.response.probabilities.long_term
           /\ report.confidence_level = request.response.confidence_level

\* C29: an analyze_asset request either finds nothing and answers
\* requires_profile without fetching macro data, scoring, narrating or
\* storing a report, or stores exactly one report of the authenticated user
\* with the probabilities and the label of its response; no request stores
\* more than one report.
C29_FindsNothingOrStoresOneReport ==
    /\ Len(reports) <= Len(request.reports_at_start) + 1
    /\ ( /\ request.handler = "analyze_asset"
         /\ request.pc \in { "responded", "raised" }
         /\ request.response # Unauthorized )
           => RequiresProfileOnly \/ StoredOneReport

=============================================================================
